---- MODULE Spec2Model ----
(***************************************************************************)
(* TinySeed (src/main.go): the process started by main(), the stop-signal  *)
(* handler it registers with TrapSignal, and the Switch / Address Book     *)
(* objects it constructs and drives.  The main goroutine and the signal    *)
(* handler goroutine are two interleaved control locations (pc, hpc).      *)
(* The p2p/pex library that main.go imports is not part of the program     *)
(* text; only what main.go observes of it is modelled: every call that     *)
(* returns an error may return one, the Switch is new/running/stopped, and *)
(* while the Switch runs its workers may mutate the Address Book.          *)
(***************************************************************************)
EXTENDS Naturals, Sequences, FiniteSets

\* bound on the number of Address Book mutations tracked
MaxMutations == 2

\* DefaultConfig values
DefaultMaxNumInboundPeers == 1000
DefaultMaxNumOutboundPeers == 1000
DefaultListenAddress == "tcp://0.0.0.0:36656"
DefaultChainID == "columbus-5"
DefaultSeeds == "delightlabs,public-seed2,public-seed"

\* values of the ID, SEEDS and LISTENADDRESS environment variables
IdValues == {"", "bombay-12"}
SeedValues == {"", "s1,s2"}
ListenValues == {"", "tcp://0.0.0.0:26656"}

\* what the address book file on disk looks like when the process starts
BookFileStates == {"missing", "corrupt", "ok"}

\* peer-level and runtime events the Switch absorbs
FaultKinds == {"transport", "protocol", "capReached"}

\* panic sites reached before or at sw.Start()
StartupCauses ==
  {"homedir", "mkdir", "nodeKey", "netAddress", "listen", "swStart"}

VARIABLES
  pc,          \* control location of the main goroutine
  hpc,         \* control location of the TrapSignal goroutine
  env,         \* ID / SEEDS / LISTENADDRESS
  bookFile,    \* state of the persisted address book file at startup
  SeedConfig,  \* the Config value handed to Start
  cfg,         \* the p2p config built in Start
  reactorCfg,  \* the pex.ReactorConfig built in Start
  sw,          \* Switch: "none", "new", "running", "stopped"
  started,     \* sw.Start() has returned nil
  book,        \* Address Book content, as a mutation count; "none" before NewAddrBook
  disk,        \* content last written by book.Save()
  flushed,     \* book.Save() has been called by the handler
  faults,      \* peer-level events seen while the Switch ran
  crashCause   \* the panic site, "" when none

vars == << pc, hpc, env, bookFile, SeedConfig, cfg, reactorCfg, sw, started,
           book, disk, flushed, faults, crashCause >>

NoConfig == [set |-> FALSE]

DefaultConfig ==
  [ set                 |-> TRUE,
    ListenAddress       |-> DefaultListenAddress,
    ChainID             |-> DefaultChainID,
    AddrBookStrict      |-> TRUE,
    MaxNumInboundPeers  |-> DefaultMaxNumInboundPeers,
    MaxNumOutboundPeers |-> DefaultMaxNumOutboundPeers,
    Seeds               |-> DefaultSeeds ]

\* the process is still running
Alive == pc \notin {"exited", "panicked"}

Panic(cause) ==
  /\ pc' = "panicked"
  /\ crashCause' = cause

Init ==
  /\ pc = "homedir"
  /\ hpc = "unregistered"
  /\ env \in [ID : IdValues, SEEDS : SeedValues, LISTENADDRESS : ListenValues]
  /\ bookFile \in BookFileStates
  /\ SeedConfig = NoConfig
  /\ cfg = NoConfig
  /\ reactorCfg = NoConfig
  /\ sw = "none"
  /\ started = FALSE
  /\ book = "none"
  /\ disk = "none"
  /\ flushed = FALSE
  /\ faults = {}
  /\ crashCause = ""

\* main: homedir.Dir()
HomeDir ==
  /\ pc = "homedir"
  /\ \E ok \in BOOLEAN :
       IF ok THEN pc' = "mkdirConfig" /\ UNCHANGED crashCause
             ELSE Panic("homedir")
  /\ UNCHANGED << hpc, env, bookFile, SeedConfig, cfg, reactorCfg, sw, started,
                  book, disk, flushed, faults >>

\* main: MkdirAllPanic(filepath.Dir(configFilePath))
MkdirConfig ==
  /\ pc = "mkdirConfig"
  /\ \E ok \in BOOLEAN :
       IF ok THEN pc' = "overrides" /\ UNCHANGED crashCause
             ELSE Panic("mkdir")
  /\ UNCHANGED << hpc, env, bookFile, SeedConfig, cfg, reactorCfg, sw, started,
                  book, disk, flushed, faults >>

\* main: DefaultConfig plus the three environment overrides, then Start(...)
ApplyOverrides ==
  /\ pc = "overrides"
  /\ SeedConfig' =
       [ DefaultConfig EXCEPT
           !.ChainID = IF env.ID # "" THEN env.ID ELSE @,
           !.Seeds = IF env.SEEDS # "" THEN env.SEEDS ELSE @,
           !.ListenAddress =
              IF env.LISTENADDRESS # "" THEN env.LISTENADDRESS ELSE @ ]
  /\ pc' = "mkdirStart"
  /\ UNCHANGED << hpc, env, bookFile, cfg, reactorCfg, sw, started, book, disk,
                  flushed, faults, crashCause >>

\* Start: the two MkdirAllPanic calls for the node key and address book dirs
MkdirStart ==
  /\ pc = "mkdirStart"
  /\ \E ok \in BOOLEAN :
       IF ok THEN pc' = "p2pConfig" /\ UNCHANGED crashCause
             ELSE Panic("mkdir")
  /\ UNCHANGED << hpc, env, bookFile, SeedConfig, cfg, reactorCfg, sw, started,
                  book, disk, flushed, faults >>

\* Start: config.DefaultP2PConfig() and the three assignments
P2PConfig ==
  /\ pc = "p2pConfig"
  /\ cfg' = [ set                 |-> TRUE,
              AllowDuplicateIP    |-> TRUE,
              MaxNumInboundPeers  |-> SeedConfig.MaxNumInboundPeers,
              MaxNumOutboundPeers |-> SeedConfig.MaxNumOutboundPeers ]
  /\ pc' = "nodeKey"
  /\ UNCHANGED << hpc, env, bookFile, SeedConfig, reactorCfg, sw, started, book,
                  disk, flushed, faults, crashCause >>

\* Start: p2p.LoadOrGenNodeKey
LoadOrGenNodeKey ==
  /\ pc = "nodeKey"
  /\ \E ok \in BOOLEAN :
       IF ok THEN pc' = "netAddress" /\ UNCHANGED crashCause
             ELSE Panic("nodeKey")
  /\ UNCHANGED << hpc, env, bookFile, SeedConfig, cfg, reactorCfg, sw, started,
                  book, disk, flushed, faults >>

\* Start: p2p.NewNetAddressString of the listen address
NewNetAddress ==
  /\ pc = "netAddress"
  /\ \E ok \in BOOLEAN :
       IF ok THEN pc' = "listen" /\ UNCHANGED crashCause
             ELSE Panic("netAddress")
  /\ UNCHANGED << hpc, env, bookFile, SeedConfig, cfg, reactorCfg, sw, started,
                  book, disk, flushed, faults >>

\* Start: transport.Listen
TransportListen ==
  /\ pc = "listen"
  /\ \E ok \in BOOLEAN :
       IF ok THEN pc' = "newBook" /\ UNCHANGED crashCause
             ELSE Panic("listen")
  /\ UNCHANGED << hpc, env, bookFile, SeedConfig, cfg, reactorCfg, sw, started,
                  book, disk, flushed, faults >>

\* a variant that treats an unreadable address book file as fatal
NewAddrBookFatal ==
  /\ pc = "newBook"
  /\ IF bookFile = "corrupt"
       THEN Panic("addrBook") /\ UNCHANGED book
       ELSE pc' = "newReactor" /\ book' = 0 /\ UNCHANGED crashCause
  /\ UNCHANGED << hpc, env, bookFile, SeedConfig, cfg, reactorCfg, sw, started,
                  disk, flushed, faults >>

\* Start: pex.NewAddrBook returns a book and no error, whatever the file holds
NewAddrBook ==
  /\ pc = "newBook"
  /\ pc' = "newReactor"
  /\ book' = 0
  /\ UNCHANGED << hpc, env, bookFile, SeedConfig, cfg, reactorCfg, sw, started,
                  disk, flushed, faults, crashCause >>

\* Start: pex.NewReactor with SeedMode true and the configured seed string
NewReactor ==
  /\ pc = "newReactor"
  /\ reactorCfg' = [ set |-> TRUE, SeedMode |-> TRUE, Seeds |-> SeedConfig.Seeds ]
  /\ pc' = "newSwitch"
  /\ UNCHANGED << hpc, env, bookFile, SeedConfig, cfg, sw, started, book, disk,
                  flushed, faults, crashCause >>

\* Start: p2p.NewSwitch and its setters
NewSwitch ==
  /\ pc = "newSwitch"
  /\ sw' = "new"
  /\ pc' = "trap"
  /\ UNCHANGED << hpc, env, bookFile, SeedConfig, cfg, reactorCfg, started, book,
                  disk, flushed, faults, crashCause >>

\* Start: tmos.TrapSignal registers the handler
TrapSignal ==
  /\ pc = "trap"
  /\ hpc' = "armed"
  /\ pc' = "swStart"
  /\ UNCHANGED << env, bookFile, SeedConfig, cfg, reactorCfg, sw, started, book,
                  disk, flushed, faults, crashCause >>

\* Start: sw.Start(); a Switch the handler already stopped cannot start
SwStart ==
  /\ pc = "swStart"
  /\ \E ok \in BOOLEAN :
       IF ok /\ sw = "new"
         THEN /\ sw' = "running"
              /\ started' = TRUE
              /\ pc' = "wait"
              /\ UNCHANGED crashCause
         ELSE Panic("swStart") /\ UNCHANGED << sw, started >>
  /\ UNCHANGED << hpc, env, bookFile, SeedConfig, cfg, reactorCfg, book, disk,
                  flushed, faults >>

\* Start: sw.Wait() returns once the Switch has stopped, and main returns
SwWait ==
  /\ pc = "wait"
  /\ sw = "stopped"
  /\ pc' = "exited"
  /\ UNCHANGED << hpc, env, bookFile, SeedConfig, cfg, reactorCfg, sw, started,
                  book, disk, flushed, faults, crashCause >>

\* a stop signal is delivered to the registered handler
Signal ==
  /\ Alive
  /\ hpc = "armed"
  /\ hpc' = "save"
  /\ UNCHANGED << pc, env, bookFile, SeedConfig, cfg, reactorCfg, sw, started,
                  book, disk, flushed, faults, crashCause >>

\* handler: book.Save()
HandlerSave ==
  /\ Alive
  /\ hpc = "save"
  /\ disk' = book
  /\ flushed' = TRUE
  /\ hpc' = "stop"
  /\ UNCHANGED << pc, env, bookFile, SeedConfig, cfg, reactorCfg, sw, started,
                  book, faults, crashCause >>

\* handler: err := sw.Stop(); panic(err) when it is not nil
HandlerStop ==
  /\ Alive
  /\ hpc = "stop"
  /\ \E ok \in BOOLEAN :
       IF ok
         THEN /\ sw' = "stopped"
              /\ hpc' = "done"
              /\ UNCHANGED << pc, crashCause >>
         ELSE /\ Panic("swStop")
              /\ UNCHANGED << sw, hpc >>
  /\ UNCHANGED << env, bookFile, SeedConfig, cfg, reactorCfg, started, book, disk,
                  flushed, faults >>

\* the handler has returned: the process exits
HandlerExit ==
  /\ Alive
  /\ hpc = "done"
  /\ hpc' = "exited"
  /\ pc' = "exited"
  /\ UNCHANGED << env, bookFile, SeedConfig, cfg, reactorCfg, sw, started, book,
                  disk, flushed, faults, crashCause >>

\* a connection worker of the running Switch mutates the Address Book
BookMutation ==
  /\ Alive
  /\ sw = "running"
  /\ book < MaxMutations
  /\ book' = book + 1
  /\ UNCHANGED << pc, hpc, env, bookFile, SeedConfig, cfg, reactorCfg, sw,
                  started, disk, flushed, faults, crashCause >>

\* a peer-level event is absorbed by the running Switch
PeerFault ==
  /\ Alive
  /\ sw = "running"
  /\ \E k \in FaultKinds \ faults : faults' = faults \cup {k}
  /\ UNCHANGED << pc, hpc, env, bookFile, SeedConfig, cfg, reactorCfg, sw,
                  started, book, disk, flushed, crashCause >>

Next ==
  \/ HomeDir
  \/ MkdirConfig
  \/ ApplyOverrides
  \/ MkdirStart
  \/ P2PConfig
  \/ LoadOrGenNodeKey
  \/ NewNetAddress
  \/ TransportListen
  \/ NewAddrBook
  \/ NewReactor
  \/ NewSwitch
  \/ TrapSignal
  \/ SwStart
  \/ SwWait
  \/ Signal
  \/ HandlerSave
  \/ HandlerStop
  \/ HandlerExit
  \/ BookMutation
  \/ PeerFault

Spec == Init /\ [][Next]_vars

----
\* C1: the Address Book is flushed only after the Switch has stopped, so the
\* content on disk at process exit is the final content of the book.
C1_FlushAfterStop ==
  /\ flushed => sw = "stopped"
  /\ (pc = "exited" /\ flushed) => disk = book

\* C2 as stated: the process panics only at a startup-time panic site.
C2_OnlyStartupCrashes == pc = "panicked" => crashCause \in StartupCauses

\* C2 as amended: the process panics only at a startup-time panic site or on
\* an error returned by sw.Stop() in the stop-signal handler; once the Switch
\* has started the stop error is the only panic, whatever peer-level events,
\* and whatever address book file, the process has met.
C2_CrashCauses ==
  /\ pc = "panicked" => crashCause \in StartupCauses \cup {"swStop"}
  /\ (pc = "panicked" /\ started) => crashCause = "swStop"

\* a panic after the Switch started, with a corrupt book file and every kind
\* of peer-level event seen
C2_Witness ==
  /\ pc = "panicked"
  /\ started
  /\ bookFile = "corrupt"
  /\ faults = FaultKinds
  /\ crashCause = "swStop"
====
